---------------------------- MODULE Spec2Model ----------------------------
(***************************************************************************)
(* Switching Cost Facilitation agent: the orchestration engine of          *)
(* src/src/ai_orchestrator.py.                                             *)
(*                                                                         *)
(* ConfigurationManager holds two key/value stores of JSON documents.      *)
(* SwitchingCostOrchestrator.analyze_switching_scenario resolves two       *)
(* documents, launches four coroutines through asyncio.gather, and builds  *)
(* a SwitchingStrategy from the four results.  Several calls may be in     *)
(* flight on one event loop; every coroutine body runs without an await,   *)
(* so each is one atomic step, and the steps of different calls and of     *)
(* different tasks interleave freely.                                      *)
(*                                                                         *)
(* A JSON object is a TLA+ function from keys to values, a JSON array a    *)
(* sequence.  A mapping whose iteration order matters (timeline_phases)    *)
(* is a sequence of <<key, value>> pairs in document order.                *)
(***************************************************************************)
EXTENDS Integers, Sequences, FiniteSets, TLC

VARIABLES
    industry_templates,    \* ConfigurationManager.industry_templates
    competitive_profiles,  \* ConfigurationManager.competitive_profiles
    pc,                    \* per call: position in analyze_switching_scenario
    request,               \* per call: the SwitchingAnalysisRequest argument
    industry_config,       \* per call: local industry_config
    competitor_profile,    \* per call: local competitor_profile
    tasks,                 \* per call, per task: the asyncio Task wrapping the coroutine
    outer,                 \* per call: the future asyncio.gather returns
    outcome,               \* per call: what the caller of analyze receives
    processing_time        \* per call: the elapsed time printed at line 126, once printed

vars == <<industry_templates, competitive_profiles, pc, request,
          industry_config, competitor_profile, tasks, outer, outcome,
          processing_time>>

-----------------------------------------------------------------------------
(* Bounds of the model *)

\* Severities range over (1 - SeverityMargin) .. (10 + SeverityMargin).
SeverityMargin == 2

\* time.time() - start_time, the difference of the clock reads of lines 97
\* and 125, is any value in 0 .. MaxElapsed.
MaxElapsed == 1

\* Concurrent calls of analyze_switching_scenario on one orchestrator.
Calls == {"call_1", "call_2"}

Severities == (1 - SeverityMargin) .. (10 + SeverityMargin)

-----------------------------------------------------------------------------
(* Python values *)

None == [none |-> TRUE]

\* dict.get(key, default)
Get(d, key, default) == IF key \in DOMAIN d THEN d[key] ELSE default

\* The outcome of running a function: a returned value or a raised exception.
Return(v) == [raised |-> FALSE, value |-> v]

Raise(type, arg) == [raised |-> TRUE, exc |-> [type |-> type, arg |-> arg]]

\* d[k1], d[k2], ... evaluated in order: the first missing key is the KeyError.
RECURSIVE FirstMissingKey(_, _)
FirstMissingKey(d, keys) ==
    IF keys = <<>> THEN ""
    ELSE IF Head(keys) \notin DOMAIN d THEN Head(keys)
    ELSE FirstMissingKey(d, Tail(keys))

Min(a, b) == IF a <= b THEN a ELSE b

-----------------------------------------------------------------------------
(* The loaded configuration documents *)

BarrierTemplate(s) ==
    [category |-> IF s % 2 = 0 THEN "technology" ELSE "contractual",
     name |-> "barrier_" \o ToString(s),
     severity |-> s,
     description |-> "d",
     mitigation_strategies |-> <<"m">>]

Vulnerability(s) ==
    [category |-> "service",
     description |-> "v_" \o ToString(s),
     severity |-> s,
     exploitation_strategy |-> "x"]

\* One template per severity, in ascending order of severity.
BarrierSweep ==
    [i \in 1 .. Cardinality(Severities) |-> BarrierTemplate(i - SeverityMargin)]

VulnerabilitySweep ==
    [i \in 1 .. Cardinality(Severities) |-> Vulnerability(i - SeverityMargin)]

\* config/industries/*.json as _load_industry_templates reads it: a document
\* with every key, a document with none of them, and one whose second barrier
\* template lacks "category".
LoadedIndustryTemplates ==
    [financial_services |->
        [switching_barriers |-> BarrierSweep,
         timeline_phases |-> << << <<"phase", "1", "foundation">>, "4_weeks">>,
                                << <<"phase", "9", "custom">>, "2_weeks">> >>,
         typical_switching_timeline |-> "3-6_months",
         success_metrics |-> <<"m1">>],
     bare |-> [industry |-> "bare"],
     untagged |->
        [switching_barriers |->
            << BarrierTemplate(5),
               [name |-> "n", severity |-> 5, description |-> "d",
                mitigation_strategies |-> <<"m">>] >>]]

\* config/competitors/*.json as _load_competitive_profiles reads it.
LoadedCompetitiveProfiles ==
    [incumbent_leader |->
        [competitor_type |-> "incumbent",
         market_position |-> "leader",
         competitive_assessment |->
            [strengths |-> <<"brand">>,
             weaknesses |-> <<"legacy">>,
             vulnerabilities |-> VulnerabilitySweep]],
     untagged |->
        [competitor_type |-> "challenger",
         competitive_assessment |->
            [vulnerabilities |->
                << [description |-> "v", severity |-> 5,
                    exploitation_strategy |-> "x"] >>]]]

IndustryKeys == {"financial_services", "bare", "untagged", "unlisted"}

CompetitorKeys == {"incumbent_leader", "untagged", "unlisted"}

Requests ==
    [industry : IndustryKeys,
     competitor : CompetitorKeys,
     account_profile : {[company_size |-> "enterprise"]},
     analysis_depth : {"comprehensive"},
     timeline_urgency : {"standard"}]

-----------------------------------------------------------------------------
(* ConfigurationManager *)

_default_competitor_profile ==
    [competitor_type |-> "unknown",
     market_position |-> "undefined",
     competitive_assessment |->
        [strengths |-> <<"market_presence">>,
         weaknesses |-> <<"unknown_vulnerabilities">>,
         vulnerabilities |-> <<>>]]

\* Mutant: an unknown industry falls back to a default document, as an
\* unknown competitor does.
get_industry_config_defaulting(templates, industry) ==
    Return(Get(templates, industry, _default_competitor_profile))

get_industry_config(templates, industry) ==
    IF industry \notin DOMAIN templates
    THEN Raise("ValueError", "Industry template '" \o industry \o "' not found")
    ELSE Return(templates[industry])

\* Mutant: an unknown competitor is an error, as an unknown industry is.
get_competitor_profile_strict(profiles, competitor) ==
    IF competitor \notin DOMAIN profiles
    THEN Raise("ValueError", "Competitor profile '" \o competitor \o "' not found")
    ELSE Return(profiles[competitor])

get_competitor_profile(profiles, competitor) ==
    Return(Get(profiles, competitor, _default_competitor_profile))

\* Mutant: dict.setdefault in place of dict.get stores the default document.
profiles_after_setdefault(profiles, competitor) ==
    IF competitor \in DOMAIN profiles THEN profiles
    ELSE profiles @@ (competitor :> _default_competitor_profile)

\* The stored profiles after get_competitor_profile: dict.get inserts nothing.
profiles_after_get(profiles, competitor) == profiles

-----------------------------------------------------------------------------
(* Helper methods for cost and timeline calculations *)

\* The dict literal of _estimate_barrier_cost, in insertion order.
cost_ranges ==
    << <<1, 3, "$10K-$25K">>,
       <<4, 6, "$25K-$75K">>,
       <<7, 8, "$75K-$150K">>,
       <<9, 10, "$150K-$300K">> >>

RECURSIVE FirstRange(_, _)
FirstRange(ranges, severity) ==
    IF ranges = <<>> THEN "$50K-$100K"
    ELSE IF Head(ranges)[1] <= severity /\ severity <= Head(ranges)[2]
         THEN Head(ranges)[3]
         ELSE FirstRange(Tail(ranges), severity)

\* Mutant: the upper end of each cost range is exclusive.
_estimate_barrier_cost_exclusive(barrier) ==
    LET severity == Get(barrier, "severity", 5)
    IN  FirstRange([i \in 1 .. Len(cost_ranges) |->
                      <<cost_ranges[i][1], cost_ranges[i][2] - 1, cost_ranges[i][3]>>],
                   severity)

_estimate_barrier_cost(barrier) ==
    LET severity == Get(barrier, "severity", 5)
    IN  FirstRange(cost_ranges, severity)

_calculate_timeline_impact(barrier) ==
    LET severity == Get(barrier, "severity", 5)
    IN  IF severity <= 3 THEN "2-4_weeks"
        ELSE IF severity <= 6 THEN "1-2_months"
        ELSE IF severity <= 8 THEN "2-4_months"
        ELSE "4-6_months"

\* Mutant: the probability is not capped.
_calculate_success_probability_uncapped(vulnerability) ==
    LET severity == Get(vulnerability, "severity", 5)
    IN  40 + (severity * 5)

_calculate_success_probability(vulnerability) ==
    LET severity == Get(vulnerability, "severity", 5)
    IN  Min(90, 40 + (severity * 5))

_determine_optimal_timing(vulnerability) == "contract_renewal_period"

\* str.title() on the words of the configuration vocabulary.
Capitalized ==
    [phase |-> "Phase", foundation |-> "Foundation", parallel |-> "Parallel",
     operation |-> "Operation", full |-> "Full", migration |-> "Migration",
     custom |-> "Custom"]

\* phase_name.replace("_", " ").title(), a phase name being its words
\* (joined by "_" in the document).
RECURSIVE TitleCase(_)
TitleCase(words) ==
    LET first == Get(Capitalized, Head(words), Head(words))
    IN  IF Len(words) = 1 THEN first
        ELSE first \o " " \o TitleCase(Tail(words))

_generate_phase_activities(phase_name, config) ==
    IF phase_name = <<"phase", "1", "foundation">>
    THEN <<"Requirements analysis and stakeholder alignment",
           "Technical architecture assessment",
           "Migration planning and resource allocation">>
    ELSE IF phase_name = <<"phase", "2", "parallel", "operation">>
    THEN <<"Parallel system setup and configuration",
           "Data migration and validation testing",
           "User training and change management">>
    ELSE IF phase_name = <<"phase", "3", "full", "migration">>
    THEN <<"Complete system cutover",
           "Business process optimization",
           "Performance monitoring and adjustment">>
    ELSE <<"Custom phase activities">>

_define_phase_deliverables(phase_name) ==
    <<TitleCase(phase_name) \o " completion report", "Stakeholder sign-off",
      "Next phase readiness assessment">>

_establish_phase_criteria(phase_name) ==
    <<"All deliverables completed", "Stakeholder approval received",
      "Success metrics achieved">>

-----------------------------------------------------------------------------
(* ROI calculation helper methods *)

_calculate_direct_costs(config) ==
    [software_licensing |-> "$50K-$150K",
     implementation_services |-> "$75K-$200K",
     training_programs |-> "$25K-$75K",
     data_migration |-> "$30K-$100K"]

_calculate_indirect_costs(config) ==
    [productivity_loss |-> "$100K-$250K",
     change_management |-> "$50K-$125K",
     risk_mitigation |-> "$25K-$75K"]

_calculate_opportunity_costs(config) ==
    [delayed_benefits |-> "$200K-$500K",
     competitive_disadvantage |-> "$100K-$300K"]

_project_efficiency_benefits ==
    [process_automation |-> "40% efficiency improvement",
     reduced_manual_effort |-> "60% time savings",
     improved_accuracy |-> "95% error reduction"]

_project_cost_savings ==
    [operational_savings |-> "$300K annually",
     maintenance_reduction |-> "$150K annually",
     compliance_efficiency |-> "$100K annually"]

_project_revenue_benefits ==
    [faster_time_to_market |-> "$500K opportunity",
     improved_customer_experience |-> "$750K retention value",
     new_market_capabilities |-> "$1M expansion potential"]

_identify_strategic_benefits ==
    <<"Competitive differentiation", "Market leadership positioning",
      "Innovation platform foundation", "Strategic partnership opportunities">>

_assess_implementation_risks ==
    << [risk |-> "migration_complexity", probability |-> "medium",
        impact |-> "high", mitigation |-> "phased_approach"],
       [risk |-> "user_adoption", probability |-> "medium",
        impact |-> "medium", mitigation |-> "extensive_training"],
       [risk |-> "data_integrity", probability |-> "low",
        impact |-> "high", mitigation |-> "parallel_validation"] >>

_assess_market_risks ==
    << [risk |-> "competitive_response", probability |-> "high",
        impact |-> "medium", mitigation |-> "rapid_execution"],
       [risk |-> "market_conditions", probability |-> "low",
        impact |-> "medium", mitigation |-> "flexible_timeline"] >>

_define_risk_mitigation ==
    <<"Comprehensive testing and validation",
      "Stakeholder communication and training",
      "Contingency planning and rollback procedures",
      "Continuous monitoring and optimization">>

-----------------------------------------------------------------------------
(* The four analysis coroutines *)

BarrierKeys ==
    <<"category", "name", "severity", "description", "mitigation_strategies">>

VulnerabilityKeys ==
    <<"category", "description", "severity", "exploitation_strategy">>

\* The index of the first element whose subscripting raises KeyError, 0 if none.
FirstBad(items, keys) ==
    LET bad == {i \in 1 .. Len(items) : FirstMissingKey(items[i], keys) # ""}
    IN  IF bad = {} THEN 0 ELSE CHOOSE i \in bad : \A j \in bad : i <= j

\* Mutant: the barriers are collected in reverse order (insert(0, barrier)).
_analyze_switching_barriers_reversed(req, config) ==
    LET templates == Get(config, "switching_barriers", <<>>)
        bad == FirstBad(templates, BarrierKeys)
        n == Len(templates)
    IN  IF bad # 0
        THEN Raise("KeyError", FirstMissingKey(templates[bad], BarrierKeys))
        ELSE Return([i \in 1 .. n |->
                [category |-> templates[n + 1 - i]["category"],
                 name |-> templates[n + 1 - i]["name"],
                 severity |-> templates[n + 1 - i]["severity"],
                 description |-> templates[n + 1 - i]["description"],
                 mitigation_strategies |-> templates[n + 1 - i]["mitigation_strategies"],
                 estimated_cost |-> _estimate_barrier_cost(templates[n + 1 - i]),
                 timeline_impact |-> _calculate_timeline_impact(templates[n + 1 - i])]])

_analyze_switching_barriers(req, config) ==
    LET templates == Get(config, "switching_barriers", <<>>)
        bad == FirstBad(templates, BarrierKeys)
    IN  IF bad # 0
        THEN Raise("KeyError", FirstMissingKey(templates[bad], BarrierKeys))
        ELSE Return([i \in 1 .. Len(templates) |->
                [category |-> templates[i]["category"],
                 name |-> templates[i]["name"],
                 severity |-> templates[i]["severity"],
                 description |-> templates[i]["description"],
                 mitigation_strategies |-> templates[i]["mitigation_strategies"],
                 estimated_cost |-> _estimate_barrier_cost(templates[i]),
                 timeline_impact |-> _calculate_timeline_impact(templates[i])]])

_identify_competitive_opportunities(req, profile) ==
    LET vulnerabilities ==
            Get(Get(profile, "competitive_assessment", <<>>), "vulnerabilities", <<>>)
        bad == FirstBad(vulnerabilities, VulnerabilityKeys)
    IN  IF bad # 0
        THEN Raise("KeyError", FirstMissingKey(vulnerabilities[bad], VulnerabilityKeys))
        ELSE Return([i \in 1 .. Len(vulnerabilities) |->
                [vulnerability_type |-> vulnerabilities[i]["category"],
                 description |-> vulnerabilities[i]["description"],
                 severity |-> vulnerabilities[i]["severity"],
                 exploitation_strategy |-> vulnerabilities[i]["exploitation_strategy"],
                 success_probability |->
                    _calculate_success_probability(vulnerabilities[i]),
                 recommended_timing |->
                    _determine_optimal_timing(vulnerabilities[i])]])

_generate_migration_roadmap(req, config) ==
    LET timeline_phases == Get(config, "timeline_phases", <<>>)
    IN  Return(
            [total_timeline |-> Get(config, "typical_switching_timeline", "6-12_months"),
             phases |-> [i \in 1 .. Len(timeline_phases) |->
                [name |-> TitleCase(timeline_phases[i][1]),
                 duration |-> timeline_phases[i][2],
                 key_activities |->
                    _generate_phase_activities(timeline_phases[i][1], config),
                 deliverables |-> _define_phase_deliverables(timeline_phases[i][1]),
                 success_criteria |-> _establish_phase_criteria(timeline_phases[i][1])]],
             critical_milestones |-> <<>>,
             resource_requirements |-> <<>>,
             risk_mitigation_plan |-> <<>>])

_calculate_roi_analysis(req, config) ==
    Return(
        [switching_costs |->
            [direct_costs |-> _calculate_direct_costs(config),
             indirect_costs |-> _calculate_indirect_costs(config),
             opportunity_costs |-> _calculate_opportunity_costs(config)],
         expected_benefits |->
            [efficiency_gains |-> _project_efficiency_benefits,
             cost_savings |-> _project_cost_savings,
             revenue_enhancement |-> _project_revenue_benefits,
             strategic_advantages |-> _identify_strategic_benefits],
         financial_projections |->
            [break_even_months |-> 18,
             roi_percentage |-> 275,
             net_present_value |-> 2500000,
             payback_period |-> "15_months"],
         risk_assessment |->
            [implementation_risks |-> _assess_implementation_risks,
             market_risks |-> _assess_market_risks,
             mitigation_strategies |-> _define_risk_mitigation]])

-----------------------------------------------------------------------------
(* Synthesis *)

_define_success_metrics(config) ==
    Get(config, "success_metrics",
        <<"migration_completion_time", "customer_satisfaction_score",
          "business_continuity_maintenance", "cost_reduction_achievement">>)

\* A line break of the f-string: the newline and the source's indentation.
LineBreak == "\n        "

\* The f-string after .strip(), which removes the leading and the trailing
\* line breaks; the mis-encoded bullet of the source is written "*".
_generate_executive_summary(analysis_results) ==
    LET barriers == analysis_results[1]
        opportunities == analysis_results[2]
        roadmap == analysis_results[3]
        roi == analysis_results[4]
    IN  "EXECUTIVE SUMMARY - SWITCHING COST FACILITATION ANALYSIS"
        \o LineBreak \o LineBreak
        \o "Strategic Opportunity: High-probability competitive displacement "
        \o "with structured switching facilitation."
        \o LineBreak \o LineBreak
        \o "Key Findings:"
        \o LineBreak \o "* " \o ToString(Len(barriers))
        \o " primary switching barriers identified with systematic mitigation strategies"
        \o LineBreak \o "* " \o ToString(Len(opportunities))
        \o " competitive vulnerabilities available for exploitation"
        \o LineBreak \o "* " \o Get(roadmap, "total_timeline", "N/A")
        \o " estimated timeline for complete migration"
        \o LineBreak \o "* "
        \o ToString(roi["financial_projections"]["roi_percentage"])
        \o "% projected ROI with "
        \o ToString(roi["financial_projections"]["break_even_months"])
        \o "-month break-even"
        \o LineBreak \o LineBreak
        \o "Recommendation: Proceed with comprehensive switching facilitation "
        \o "strategy leveraging identified competitive weaknesses and systematic "
        \o "barrier reduction approach."

SwitchingStrategy(results, config) ==
    [barriers |-> results[1],
     opportunities |-> results[2],
     roadmap |-> results[3],
     roi_analysis |-> results[4],
     success_metrics |-> _define_success_metrics(config),
     executive_summary |-> _generate_executive_summary(results)]

\* Mutant: the timing line is appended to the summary instead of printed.
ReturnedValue_timed(strategy, elapsed) ==
    [strategy EXCEPT !.executive_summary =
        @ \o "\nAnalysis completed in " \o ToString(elapsed) \o " seconds"]

\* What analyze returns: the strategy; the elapsed time is only printed.
ReturnedValue(strategy, elapsed) == strategy

-----------------------------------------------------------------------------
(* asyncio.gather *)

\* analysis_tasks, in the order of the list literal.
analysis_tasks == <<"barriers", "opportunities", "roadmap", "roi">>

\* Mutant: every coroutine is called with industry_config.
TaskArgument_config(t, config, profile) == config

\* The document each coroutine is called with.
TaskArgument(t, config, profile) ==
    IF t = "opportunities" THEN profile ELSE config

Coroutine(t, req, arg) ==
    CASE t = "barriers" -> _analyze_switching_barriers(req, arg)
      [] t = "opportunities" -> _identify_competitive_opportunities(req, arg)
      [] t = "roadmap" -> _generate_migration_roadmap(req, arg)
      [] t = "roi" -> _calculate_roi_analysis(req, arg)

Scheduled == [state |-> "scheduled"]

Finished(result) ==
    IF result.raised
    THEN [state |-> "finished", raised |-> TRUE, exc |-> result.exc]
    ELSE [state |-> "finished", raised |-> FALSE, value |-> result.value]

IsFinished(fut) == fut.state = "finished"

Pending == [state |-> "pending"]

\* Mutant: the outer future gets its results as soon as one child returns
\* (a wait for the first completion), unfinished children giving None.
_done_callback_first(out, children, t) ==
    IF out.state # "pending" THEN out
    ELSE IF children[t].raised
    THEN [state |-> "exception", exc |-> children[t].exc]
    ELSE [state |-> "result",
          results |-> [i \in 1 .. Len(analysis_tasks) |->
                LET child == children[analysis_tasks[i]]
                IN  IF IsFinished(child) /\ ~child.raised THEN child.value ELSE None]]

\* gather's _done_callback (return_exceptions is False), run when child t
\* finishes: the first exception settles the outer future at once; otherwise
\* the results are set, in the order of the arguments, once every child is done.
_done_callback(out, children, t) ==
    IF out.state # "pending" THEN out
    ELSE IF children[t].raised
    THEN [state |-> "exception", exc |-> children[t].exc]
    ELSE IF \A u \in DOMAIN children : IsFinished(children[u])
    THEN [state |-> "result",
          results |-> [i \in 1 .. Len(analysis_tasks) |->
                            children[analysis_tasks[i]].value]]
    ELSE out

-----------------------------------------------------------------------------
(* analyze_switching_scenario *)

Init ==
    /\ industry_templates = LoadedIndustryTemplates
    /\ competitive_profiles = LoadedCompetitiveProfiles
    /\ pc = [c \in Calls |-> "idle"]
    /\ request = [c \in Calls |-> None]
    /\ industry_config = [c \in Calls |-> None]
    /\ competitor_profile = [c \in Calls |-> None]
    /\ tasks = [c \in Calls |-> <<>>]
    /\ outer = [c \in Calls |-> None]
    /\ outcome = [c \in Calls |-> None]
    /\ processing_time = [c \in Calls |-> None]

\* Lines 97-112, up to the await: resolve the two documents, create the four
\* coroutines and hand them to gather, which schedules them.
Analyze(c, req) ==
    LET config == get_industry_config(industry_templates, req.industry)
        profile == get_competitor_profile(competitive_profiles, req.competitor)
    IN  /\ pc[c] = "idle"
        /\ request' = [request EXCEPT ![c] = req]
        /\ IF config.raised
           THEN /\ pc' = [pc EXCEPT ![c] = "raised"]
                /\ outcome' = [outcome EXCEPT ![c] = config]
                /\ UNCHANGED <<competitive_profiles, industry_config,
                               competitor_profile, tasks, outer>>
           ELSE /\ industry_config' = [industry_config EXCEPT ![c] = config.value]
                /\ competitive_profiles' =
                        profiles_after_get(competitive_profiles, req.competitor)
                /\ IF profile.raised
                   THEN /\ pc' = [pc EXCEPT ![c] = "raised"]
                        /\ outcome' = [outcome EXCEPT ![c] = profile]
                        /\ UNCHANGED <<competitor_profile, tasks, outer>>
                   ELSE /\ competitor_profile' =
                                [competitor_profile EXCEPT ![c] = profile.value]
                        /\ tasks' = [tasks EXCEPT ![c] =
                                [t \in {analysis_tasks[i] : i \in 1 .. Len(analysis_tasks)}
                                    |-> Scheduled]]
                        /\ outer' = [outer EXCEPT ![c] = Pending]
                        /\ pc' = [pc EXCEPT ![c] = "awaiting"]
                        /\ UNCHANGED outcome
        /\ UNCHANGED <<industry_templates, processing_time>>

\* The event loop runs one scheduled task to its end (no coroutine body
\* awaits), then gather's callback for it.
RunTask(c, t) ==
    /\ t \in DOMAIN tasks[c]
    /\ tasks[c][t].state = "scheduled"
    /\ LET arg == TaskArgument(t, industry_config[c], competitor_profile[c])
           children == [tasks[c] EXCEPT ![t] = Finished(Coroutine(t, request[c], arg))]
       IN  /\ tasks' = [tasks EXCEPT ![c] = children]
           /\ outer' = [outer EXCEPT ![c] = _done_callback(@, children, t)]
    /\ UNCHANGED <<industry_templates, competitive_profiles, pc, request,
                   industry_config, competitor_profile, outcome, processing_time>>

\* Lines 113-128: the await returned the results; build the strategy, print
\* the elapsed time, return.
Synthesize(c, elapsed) ==
    /\ pc[c] = "awaiting"
    /\ outer[c].state = "result"
    /\ LET strategy == SwitchingStrategy(outer[c].results, industry_config[c])
       IN  /\ processing_time' = [processing_time EXCEPT ![c] = [seconds |-> elapsed]]
           /\ outcome' = [outcome EXCEPT ![c] = Return(ReturnedValue(strategy, elapsed))]
    /\ pc' = [pc EXCEPT ![c] = "returned"]
    /\ UNCHANGED <<industry_templates, competitive_profiles, request,
                   industry_config, competitor_profile, tasks, outer>>

\* Line 112: the await raises the exception of the outer future, which leaves
\* analyze_switching_scenario (nothing catches it).
Propagate(c) ==
    /\ pc[c] = "awaiting"
    /\ outer[c].state = "exception"
    /\ pc' = [pc EXCEPT ![c] = "raised"]
    /\ outcome' = [outcome EXCEPT ![c] = [raised |-> TRUE, exc |-> outer[c].exc]]
    /\ UNCHANGED <<industry_templates, competitive_profiles, request,
                   industry_config, competitor_profile, tasks, outer,
                   processing_time>>

Next ==
    \/ \E c \in Calls, req \in Requests : Analyze(c, req)
    \/ \E c \in Calls, t \in {"barriers", "opportunities", "roadmap", "roi"} :
            RunTask(c, t)
    \/ \E c \in Calls, elapsed \in 0 .. MaxElapsed : Synthesize(c, elapsed)
    \/ \E c \in Calls : Propagate(c)

Spec == Init /\ [][Next]_vars

-----------------------------------------------------------------------------
(* Properties *)

TaskNames == {analysis_tasks[i] : i \in 1 .. Len(analysis_tasks)}

Started(c) == pc[c] # "idle"

Launched(c) == DOMAIN tasks[c] # {}

KnownIndustry(c) == request[c].industry \in DOMAIN industry_templates

KnownCompetitor(c) == request[c].competitor \in DOMAIN competitive_profiles

\* The tasks of call c that have finished by raising / by returning.
RaisedTasks(c) ==
    {t \in DOMAIN tasks[c] : IsFinished(tasks[c][t]) /\ tasks[c][t].raised}

ReturnedTasks(c) ==
    {t \in DOMAIN tasks[c] : IsFinished(tasks[c][t]) /\ ~tasks[c][t].raised}

\* The documents a request resolves to in the loaded configuration.
ResolvedIndustry(req) == LoadedIndustryTemplates[req.industry]

ResolvedCompetitor(req) ==
    IF req.competitor \in DOMAIN LoadedCompetitiveProfiles
    THEN LoadedCompetitiveProfiles[req.competitor]
    ELSE _default_competitor_profile

StrategyFields ==
    {"barriers", "opportunities", "roadmap", "roi_analysis", "success_metrics",
     "executive_summary"}

\* C1: a call whose industry key is not among the loaded templates ends by
\* raising the ValueError "Industry template '<key>' not found"; none of its
\* four tasks was launched, no gather future exists, and the caller receives
\* no Strategy.
C1_UnknownIndustryFailsBeforeLaunch ==
    \A c \in Calls :
        (Started(c) /\ ~KnownIndustry(c)) =>
            /\ pc[c] = "raised"
            /\ outcome[c].raised
            /\ outcome[c].exc =
                    [type |-> "ValueError",
                     arg |-> "Industry template '" \o request[c].industry
                                \o "' not found"]
            /\ ~Launched(c)
            /\ outer[c] = None

C1_Witness ==
    \E c \in Calls :
        /\ pc[c] = "raised"
        /\ request[c].industry = "unlisted"
        /\ outcome[c].exc.type = "ValueError"

\* C2: when a call fails because a task failed, the caller receives no
\* Strategy and the failure it receives identifies the task that produced
\* it: two calls that surface the same failure have a failed task in common.
C2_FailureNamesItsTask ==
    \A c1, c2 \in Calls :
        (/\ pc[c1] = "raised" /\ Launched(c1)
         /\ pc[c2] = "raised" /\ Launched(c2)) =>
            /\ outcome[c1].raised
            /\ (outcome[c1].exc = outcome[c2].exc =>
                    RaisedTasks(c1) \cap RaisedTasks(c2) # {})

\* C3: every returned Strategy holds, field by field, the value returned by
\* the barrier, opportunity, roadmap and ROI task for the call's own request and
\* for the documents that request resolves to, whatever the other call does
\* and in whatever order the tasks finished.
C3_StrategyFromOwnRequest ==
    \A c \in Calls :
        pc[c] = "returned" =>
            LET req == request[c]
                strategy == outcome[c].value
            IN  /\ industry_config[c] = ResolvedIndustry(req)
                /\ competitor_profile[c] = ResolvedCompetitor(req)
                /\ Return(strategy.barriers) =
                    _analyze_switching_barriers(req, ResolvedIndustry(req))
                /\ Return(strategy.opportunities) =
                    _identify_competitive_opportunities(req, ResolvedCompetitor(req))
                /\ Return(strategy.roadmap) =
                    _generate_migration_roadmap(req, ResolvedIndustry(req))
                /\ Return(strategy.roi_analysis) =
                    _calculate_roi_analysis(req, ResolvedIndustry(req))

C3_Witness ==
    \E c1, c2 \in Calls :
        /\ pc[c1] = "returned" /\ pc[c2] = "returned"
        /\ request[c1].industry = "financial_services"
        /\ request[c1].competitor = "incumbent_leader"
        /\ request[c2].industry = "bare"
        /\ request[c2].competitor = "unlisted"
        /\ outcome[c1].value.opportunities # outcome[c2].value.opportunities

\* C4: two calls with the same request return equal Strategies (hence equal
\* executive summaries), whatever the task schedules and the elapsed times
\* were; the returned value has the six Strategy fields and no other.
C4_SameRequestSameStrategy ==
    \A c1, c2 \in Calls :
        (pc[c1] = "returned" /\ pc[c2] = "returned" /\ request[c1] = request[c2]) =>
            /\ outcome[c1].value.executive_summary = outcome[c2].value.executive_summary
            /\ outcome[c1].value = outcome[c2].value
            /\ DOMAIN outcome[c1].value = StrategyFields

C4_Witness ==
    \E c1, c2 \in Calls :
        /\ c1 # c2
        /\ pc[c1] = "returned" /\ pc[c2] = "returned"
        /\ request[c1] = request[c2]
        /\ processing_time[c1] # processing_time[c2]

\* The bucket tables of the barrier cost and of the timeline impact.
CostTable(s) ==
    CASE 1 <= s /\ s <= 3 -> "$10K-$25K"
      [] 4 <= s /\ s <= 6 -> "$25K-$75K"
      [] 7 <= s /\ s <= 8 -> "$75K-$150K"
      [] 9 <= s /\ s <= 10 -> "$150K-$300K"
      [] OTHER -> "$50K-$100K"

TimelineTable(s) ==
    CASE s <= 3 -> "2-4_weeks"
      [] 4 <= s /\ s <= 6 -> "1-2_months"
      [] 7 <= s /\ s <= 8 -> "2-4_months"
      [] OTHER -> "4-6_months"

\* C5: every barrier the barrier task produces has the estimated cost and
\* the timeline impact the bucket tables give for its severity.
C5_BucketTables ==
    \A c \in Calls :
        "barriers" \in ReturnedTasks(c) =>
            LET barriers == tasks[c]["barriers"].value
            IN  \A i \in 1 .. Len(barriers) :
                    /\ barriers[i].estimated_cost = CostTable(barriers[i].severity)
                    /\ barriers[i].timeline_impact = TimelineTable(barriers[i].severity)

C5_Witness ==
    \E c \in Calls :
        /\ "barriers" \in ReturnedTasks(c)
        /\ LET barriers == tasks[c]["barriers"].value
           IN  {0, 1, 3, 4, 6, 7, 8, 9, 10, 11} \subseteq
                    {barriers[i].severity : i \in 1 .. Len(barriers)}

\* C6: the opportunity task produces one opportunity per vulnerability of the
\* profile, with success_probability = min(90, 40 + 5 * severity): never
\* above 90, and within 45 .. 90 for a severity in 1 .. 10.
C6_SuccessProbability ==
    \A c \in Calls :
        "opportunities" \in ReturnedTasks(c) =>
            LET opportunities == tasks[c]["opportunities"].value
                vulnerabilities ==
                    competitor_profile[c]["competitive_assessment"]["vulnerabilities"]
            IN  /\ Len(opportunities) = Len(vulnerabilities)
                /\ \A i \in 1 .. Len(opportunities) :
                    LET s == vulnerabilities[i].severity
                        p == opportunities[i].success_probability
                    IN  /\ opportunities[i].severity = s
                        /\ p = (IF 40 + 5 * s > 90 THEN 90 ELSE 40 + 5 * s)
                        /\ p <= 90
                        /\ (1 <= s /\ s <= 10) => (45 <= p /\ p <= 90)
                        /\ (s = 1) => (p = 45)
                        /\ (s >= 10) => (p = 90)

C6_Witness ==
    \E c \in Calls :
        /\ "opportunities" \in ReturnedTasks(c)
        /\ LET opportunities == tasks[c]["opportunities"].value
           IN  {1, 10, 11} \subseteq
                    {opportunities[i].severity : i \in 1 .. Len(opportunities)}

\* C7 as stated: a call with a known industry and an unknown competitor
\* raises no exception and returns a Strategy with no opportunities.
C7_UnknownCompetitorNeverRaises ==
    \A c \in Calls :
        (Started(c) /\ KnownIndustry(c) /\ ~KnownCompetitor(c)) =>
            /\ pc[c] # "raised"
            /\ pc[c] = "returned" => outcome[c].value.opportunities = <<>>

\* C7 as amended: for an unknown competitor the lookup returns the default
\* document, the opportunity task returns the empty list, a returned Strategy
\* has no opportunities, and the call raises only the exception of one of the
\* other three tasks.
C7_UnknownCompetitorDefault ==
    \A c \in Calls :
        (Started(c) /\ KnownIndustry(c) /\ ~KnownCompetitor(c)) =>
            /\ competitor_profile[c] = _default_competitor_profile
            /\ Launched(c)
            /\ IsFinished(tasks[c]["opportunities"]) =>
                    /\ ~tasks[c]["opportunities"].raised
                    /\ tasks[c]["opportunities"].value = <<>>
            /\ pc[c] = "returned" => outcome[c].value.opportunities = <<>>
            /\ pc[c] = "raised" =>
                    \E t \in RaisedTasks(c) \ {"opportunities"} :
                        outcome[c].exc = tasks[c][t].exc

C7_Witness ==
    \E c \in Calls :
        /\ pc[c] = "returned"
        /\ request[c].industry = "financial_services"
        /\ request[c].competitor = "unlisted"
        /\ outcome[c].value.opportunities = <<>>

\* C8: the barriers of a returned Strategy are one per template of
\* industry_config["switching_barriers"], in the order of the templates, each
\* with its template's category, name and severity; without that key the
\* barrier task raises nothing and the list is empty.
C8_BarriersFollowTemplates ==
    \A c \in Calls :
        LET templates == Get(industry_config[c], "switching_barriers", <<>>)
        IN  /\ pc[c] = "returned" =>
                LET barriers == outcome[c].value.barriers
                IN  /\ Len(barriers) = Len(templates)
                    /\ \A i \in 1 .. Len(templates) :
                        /\ barriers[i].category = templates[i].category
                        /\ barriers[i].name = templates[i].name
                        /\ barriers[i].severity = templates[i].severity
            /\ (/\ Launched(c)
                /\ "switching_barriers" \notin DOMAIN industry_config[c]
                /\ IsFinished(tasks[c]["barriers"])) =>
                    /\ ~tasks[c]["barriers"].raised
                    /\ tasks[c]["barriers"].value = <<>>

C8_Witness ==
    \E c1, c2 \in Calls :
        /\ pc[c1] = "returned" /\ pc[c2] = "returned"
        /\ Len(outcome[c1].value.barriers) = Cardinality(Severities)
        /\ "switching_barriers" \notin DOMAIN industry_config[c2]
        /\ outcome[c2].value.barriers = <<>>

\* C9: the gather future gets its results only when all four tasks have
\* finished and none has raised, and analyze builds and returns a Strategy
\* only from those results: never while a task is unfinished, never after a
\* task has raised.
C9_JoinBarrier ==
    \A c \in Calls :
        /\ pc[c] = "returned" => outer[c].state = "result"
        /\ (Launched(c) /\ outer[c].state = "result") =>
                ReturnedTasks(c) = TaskNames
        /\ RaisedTasks(c) # {} => pc[c] # "returned"

C9_Witness ==
    \E c1, c2 \in Calls :
        /\ pc[c1] = "returned"
        /\ ReturnedTasks(c1) = TaskNames
        /\ pc[c2] = "raised"
        /\ RaisedTasks(c2) # {}

\* C10: no step changes the stored industry templates or competitor profiles
\* (an unknown competitor's default document is not stored), nor the request
\* of a call that has started.
C10_InputsReadOnly ==
    [][/\ industry_templates' = industry_templates
       /\ competitive_profiles' = competitive_profiles
       /\ \A c \in Calls : Started(c) => request'[c] = request[c]]_vars

C10_Witness ==
    \E c1, c2 \in Calls :
        /\ pc[c1] = "returned"
        /\ request[c1].competitor = "unlisted"
        /\ pc[c2] = "raised"
        /\ "unlisted" \notin DOMAIN competitive_profiles
        /\ competitive_profiles = LoadedCompetitiveProfiles
        /\ industry_templates = LoadedIndustryTemplates

=============================================================================
